---- MODULE Spec2Model ----
(***************************************************************************)
(* Bit-banged 1-Wire bus master of rp2040-hal (src/onewire.rs).            *)
(*                                                                         *)
(* The driver owns one GPIO pin, kept in an Option slot in floating-input  *)
(* mode, and shares a delay provider through a RefCell.  Every statement   *)
(* of bus_reset, write and read that touches the pin, the delay provider   *)
(* or a local is one step of the model; the borrow of the delay provider   *)
(* and the delay made through it are two steps, because the RefMut lives   *)
(* from borrow_mut() to the end of the statement.                          *)
(*                                                                         *)
(* `trace` records what a mock pin and a mock delay provider would see     *)
(* during the call in progress: mode conversions, level assertions,        *)
(* samples and delays, in program order.                                   *)
(***************************************************************************)
EXTENDS Integers, Sequences, FiniteSets, TLC

\* ------------------------------------------------------------------ bounds
\* Longest response buffer handed to read.
MaxBufLen == 2

\* ------------------------------------------------------- program constants
ResetLowUs == 480
PresenceWaitUs == 90
ResetHighUs == 390
WriteOneLowUs == 7
WriteZeroLowUs == 60
SlotUs == 60
SpacingUs == 1
ReadInitUs == 2
ReadSampleUs == 9
BitsPerByte == 8

\* ------------------------------------------------------------------- state
VARIABLES
    pin,                 \* self.pin: "None", or the mode of the stored pin
    ow_pin,              \* local ow_pin: "none" (not bound), or its mode
    latch,               \* output latch of the pin: last level asserted
    borrows,             \* live RefMut borrows of self.delay
    pc,                  \* position of the call in progress
    op,                  \* operation in progress or just returned
    rom_id,              \* _rom_id argument of write / read
    byte,                \* write: command byte
    uc,                  \* write: loop variable
    time_drive_bus_low,  \* write: local
    time_slot,           \* write: local
    buffer,              \* read: caller's buffer
    idx,                 \* read: bytes of the buffer already visited
    bit_position,        \* read: inner loop variable
    slave,               \* read: bytes the slave transmits
    bus_sensor_present,  \* bus_reset: local, "unset" until sampled
    log,                 \* last value written by info!
    result,              \* value returned by the call, "none" while running
    trace,               \* pin and delay events of the call in progress
    mock_total           \* mock delay provider: command, summed delays and
                         \* summed driven delays of the last write of 0x00
                         \* or 0xFF the caller has seen return

vars == << pin, ow_pin, latch, borrows, pc, op, rom_id, byte, uc,
           time_drive_bus_low, time_slot, buffer, idx, bit_position, slave,
           bus_sensor_present, log, result, trace, mock_total >>

pinVars   == << pin, ow_pin, latch >>
writeVars == << byte, uc, time_drive_bus_low, time_slot >>
readVars  == << buffer, idx, bit_position, slave >>
callVars  == << op, rom_id, mock_total >>

Levels   == {"Low", "High"}
RomIds   == {0, 1}
Bytes    == 0..255
\* Bytes a slave transmits when more than one byte is read.
SlaveBytes == {0, 1, 128, 165, 176, 255}
\* Contents of the caller's buffer before read: every byte the same filler.
FillBytes == {0, 255}

\* ------------------------------------------------------------------ events
EvMode(from, to) == [kind |-> "mode",   from |-> from, to |-> to,  lvl |-> "-", us |-> 0]
EvSet(l)         == [kind |-> "set",    from |-> "-",  to |-> "-", lvl |-> l,   us |-> 0]
EvSample(l)      == [kind |-> "sample", from |-> "-",  to |-> "-", lvl |-> l,   us |-> 0]
EvDelay(n)       == [kind |-> "delay",  from |-> "-",  to |-> "-", lvl |-> "-", us |-> n]

\* Sum of the delays requested in a trace.
RECURSIVE TotalUsFrom(_, _)
TotalUsFrom(t, i) == IF i > Len(t) THEN 0 ELSE t[i].us + TotalUsFrom(t, i + 1)
TotalUs(t) == TotalUsFrom(t, 1)

\* Number of events of a trace that satisfy Test.
Count(t, Test(_)) == Cardinality({i \in 1..Len(t) : Test(t[i])})
IsToOutput(e) == e.kind = "mode" /\ e.from = "Input" /\ e.to = "Output"
IsSetLow(e) == e.kind = "set" /\ e.lvl = "Low"
IsSample(e) == e.kind = "sample"
IsDelay(e) == e.kind = "delay"
Slots(t) == Count(t, IsToOutput)

\* The delays made while the pin is in output mode, in order.
RECURSIVE DrivenDelaysFrom(_, _, _)
DrivenDelaysFrom(t, i, m) ==
    IF i > Len(t) THEN << >>
    ELSE IF t[i].kind = "mode" THEN DrivenDelaysFrom(t, i + 1, t[i].to)
    ELSE IF t[i].kind = "delay" /\ m = "Output"
         THEN << t[i].us >> \o DrivenDelaysFrom(t, i + 1, m)
    ELSE DrivenDelaysFrom(t, i + 1, m)
DrivenDelays(t) == DrivenDelaysFrom(t, 1, "Input")

\* Sum of a sequence of numbers.
RECURSIVE SumFrom(_, _)
SumFrom(q, i) == IF i > Len(q) THEN 0 ELSE q[i] + SumFrom(q, i + 1)
Sum(q) == SumFrom(q, 1)

\* ------------------------------------------------------ pin and delay API
into_push_pull_output(p) == "Output"
\* mutant: the conversion back to floating input is left out
into_floating_input_noop(p) == p
into_floating_input(p) == "Input"
\* mutant: presence read with the inverted test
is_low_inverted(l) == l = "High"
is_low(l) == l = "Low"
is_high(l) == l = "High"

\* u32 arithmetic of the slot computations.  A u32 is held as the signed
\* reading of its 32 bits (v - 2^32 for v >= 2^31), so a negative number
\* stands for a value a wrapped subtraction produced; on the operands of
\* the driver (all below 2^31) wrapping + and - are then + and -.
Underflows32(a, b) == a < b
Sub32(a, b) == a - b
Add32(a, b) == a + b

\* mutant: the RefMut is kept alive after the statement
RefMutLeak(b) == b

\* The RefMut temporary of `self.delay.borrow_mut().delay_us(n);` is dropped
\* at the end of the statement.
RefMutDrop(b) == b - 1

\* self.delay.borrow_mut(): panics when a borrow is live.
BorrowMut(nxt) ==
    IF borrows = 0
    THEN borrows' = borrows + 1 /\ pc' = nxt
    ELSE borrows' = borrows /\ pc' = "panic"

\* .delay_us(n) on the borrowed provider, then the end of the statement.
DelayUs(n, nxt) ==
    /\ trace' = Append(trace, EvDelay(n))
    /\ borrows' = RefMutDrop(borrows)
    /\ pc' = nxt

\* self.pin.take().unwrap().into_push_pull_output()
TakeOutput(nxt) ==
    IF pin = "None"
    THEN /\ pc' = "panic"
         /\ UNCHANGED << pin, ow_pin, trace >>
    ELSE /\ pin' = "None"
         /\ ow_pin' = into_push_pull_output(pin)
         /\ trace' = Append(trace, EvMode(pin, into_push_pull_output(pin)))
         /\ pc' = nxt

\* mutant: set_low is skipped when an earlier slot left the latch low
SetLowIfLatchHigh(nxt) ==
    /\ latch' = "Low"
    /\ trace' = IF latch = "Low" THEN trace ELSE Append(trace, EvSet("Low"))
    /\ pc' = nxt

\* mutant: the slot is opened by asserting high
SetLowInverted(nxt) ==
    /\ latch' = "High"
    /\ trace' = Append(trace, EvSet("High"))
    /\ pc' = nxt

\* ow_pin.set_low()
SetLow(nxt) ==
    /\ latch' = "Low"
    /\ trace' = Append(trace, EvSet("Low"))
    /\ pc' = nxt

\* let ow_pin = ow_pin.into_floating_input()
IntoInput(nxt) ==
    /\ ow_pin' = into_floating_input(ow_pin)
    /\ trace' = Append(trace, EvMode(ow_pin, into_floating_input(ow_pin)))
    /\ pc' = nxt

\* mutant: the pin is not put back into the slot
StorePinForgotten(nxt) ==
    /\ pin' = pin
    /\ ow_pin' = "none"
    /\ pc' = nxt

\* self.pin = Option::Some(ow_pin)
StorePin(nxt) ==
    /\ pin' = ow_pin
    /\ ow_pin' = "none"
    /\ pc' = nxt

NoTotal == [cmd |-> -1, us |-> 0, low |-> 0]
NoLog == [tag |-> "none", present |-> FALSE, bytes |-> << >>]

Init ==
    /\ pin = "Input"
    /\ ow_pin = "none"
    /\ latch \in Levels
    /\ borrows = 0
    /\ pc = "idle"
    /\ op = "none"
    /\ rom_id = 0
    /\ byte = 0
    /\ uc = 0
    /\ time_drive_bus_low = 0
    /\ time_slot = 0
    /\ buffer = << >>
    /\ idx = 0
    /\ bit_position = 0
    /\ slave = << >>
    /\ bus_sensor_present = "unset"
    /\ log = NoLog
    /\ result = "none"
    /\ trace = << >>
    /\ mock_total = NoTotal

\* Locals and observations of a call that starts.
Fresh ==
    /\ bus_sensor_present' = "unset"
    /\ result' = "none"
    /\ trace' = << >>
    /\ log' = NoLog

\* ------------------------------------------------------------- bus_reset
BusReset_Call ==
    /\ pc = "idle"
    /\ op' = "bus_reset"
    /\ rom_id' = 0
    /\ UNCHANGED mock_total
    /\ pc' = "r_take"
    /\ Fresh
    /\ byte' = 0 /\ uc' = 0 /\ time_drive_bus_low' = 0 /\ time_slot' = 0
    /\ buffer' = << >> /\ idx' = 0 /\ bit_position' = 0 /\ slave' = << >>
    /\ UNCHANGED << pinVars, borrows >>

BusReset_Take ==
    /\ pc = "r_take"
    /\ TakeOutput("r_low")
    /\ UNCHANGED << latch, borrows, callVars, writeVars, readVars,
                    bus_sensor_present, log, result >>

BusReset_SetLow ==
    /\ pc = "r_low"
    /\ SetLow("r_borrow480")
    /\ UNCHANGED << pin, ow_pin, borrows, callVars, writeVars, readVars,
                    bus_sensor_present, log, result >>

BusReset_Borrow480 ==
    /\ pc = "r_borrow480"
    /\ BorrowMut("r_delay480")
    /\ UNCHANGED << pinVars, callVars, writeVars, readVars,
                    bus_sensor_present, log, result, trace >>

BusReset_Delay480 ==
    /\ pc = "r_delay480"
    /\ DelayUs(ResetLowUs, "r_high")
    /\ UNCHANGED << pinVars, callVars, writeVars, readVars,
                    bus_sensor_present, log, result >>

BusReset_SetHigh ==
    /\ pc = "r_high"
    /\ latch' = "High"
    /\ trace' = Append(trace, EvSet("High"))
    /\ pc' = "r_input"
    /\ UNCHANGED << pin, ow_pin, borrows, callVars, writeVars, readVars,
                    bus_sensor_present, log, result >>

BusReset_Input ==
    /\ pc = "r_input"
    /\ IntoInput("r_borrow90")
    /\ UNCHANGED << pin, latch, borrows, callVars, writeVars, readVars,
                    bus_sensor_present, log, result >>

BusReset_Borrow90 ==
    /\ pc = "r_borrow90"
    /\ BorrowMut("r_delay90")
    /\ UNCHANGED << pinVars, callVars, writeVars, readVars,
                    bus_sensor_present, log, result, trace >>

BusReset_Delay90 ==
    /\ pc = "r_delay90"
    /\ DelayUs(PresenceWaitUs, "r_sample")
    /\ UNCHANGED << pinVars, callVars, writeVars, readVars,
                    bus_sensor_present, log, result >>

\* The line level in the presence window is the environment's choice.
BusReset_Sample ==
    /\ pc = "r_sample"
    /\ \E l \in Levels :
         /\ bus_sensor_present' = is_low(l)
         /\ trace' = Append(trace, EvSample(l))
    /\ pc' = "r_borrow390"
    /\ UNCHANGED << pinVars, borrows, callVars, writeVars, readVars,
                    log, result >>

BusReset_Borrow390 ==
    /\ pc = "r_borrow390"
    /\ BorrowMut("r_delay390")
    /\ UNCHANGED << pinVars, callVars, writeVars, readVars,
                    bus_sensor_present, log, result, trace >>

\* mutant: the 390 us are counted from the release, not from the sample
BusReset_Delay390FromRelease ==
    /\ pc = "r_delay390"
    /\ DelayUs(Sub32(ResetHighUs, PresenceWaitUs), "r_store")
    /\ UNCHANGED << pinVars, callVars, writeVars, readVars,
                    bus_sensor_present, log, result >>

BusReset_Delay390 ==
    /\ pc = "r_delay390"
    /\ DelayUs(ResetHighUs, "r_store")
    /\ UNCHANGED << pinVars, callVars, writeVars, readVars,
                    bus_sensor_present, log, result >>

\* mutant: the reset is tried again when no presence was sampled
BusReset_StoreRetry ==
    /\ pc = "r_store"
    /\ StorePin(IF bus_sensor_present = TRUE THEN "r_ret" ELSE "r_take")
    /\ UNCHANGED << latch, borrows, callVars, writeVars, readVars,
                    bus_sensor_present, log, result, trace >>

BusReset_Store ==
    /\ pc = "r_store"
    /\ StorePin("r_ret")
    /\ UNCHANGED << latch, borrows, callVars, writeVars, readVars,
                    bus_sensor_present, log, result, trace >>

\* info!("Sensor Present: {}", bus_sensor_present); Ok(())
BusReset_Return ==
    /\ pc = "r_ret"
    /\ log' = [tag |-> "present", present |-> bus_sensor_present, bytes |-> << >>]
    /\ result' = "Ok(())"
    /\ pc' = "done"
    /\ UNCHANGED << pinVars, borrows, callVars, writeVars, readVars,
                    bus_sensor_present, trace >>

\* ----------------------------------------------------------------- write
\* Bit i of an 8-bit value.
Bit(x, i) == (x \div (2 ^ i)) % 2

\* x & y and x | y on u8
RECURSIVE BitAndFrom(_, _, _)
BitAndFrom(x, y, i) ==
    IF i = BitsPerByte THEN 0
    ELSE (2 ^ i) * (Bit(x, i) * Bit(y, i)) + BitAndFrom(x, y, i + 1)
BitAnd(x, y) == BitAndFrom(x, y, 0)

RECURSIVE BitOrFrom(_, _, _)
BitOrFrom(x, y, i) ==
    IF i = BitsPerByte THEN 0
    ELSE (2 ^ i) * (IF Bit(x, i) + Bit(y, i) > 0 THEN 1 ELSE 0) + BitOrFrom(x, y, i + 1)
BitOr(x, y) == BitOrFrom(x, y, 0)

\* 1 << n on u8
Shl1(n) == (2 ^ n) % 256

\* mutant: the command is sent most significant bit first
WriteBitIsOneMsbFirst(b, i) == BitAnd(b, Shl1(7 - i)) # 0

\* if (byte & (1 << uc)) != 0
WriteBitIsOne(b, i) == BitAnd(b, Shl1(i)) # 0

\* mutant: a low-time for a 1 bit that is longer than the slot
TimeDriveBusLowLong(b, i) == IF WriteBitIsOne(b, i) THEN 70 ELSE WriteZeroLowUs

\* time_drive_bus_low of the two branches
TimeDriveBusLow(b, i) == IF WriteBitIsOne(b, i) THEN WriteOneLowUs ELSE WriteZeroLowUs

\* mutant: a fixed recovery time instead of the rest of the slot
TimeSlotRecoveryOnly(low) == SpacingUs

\* time_slot = 60 + 1 - time_drive_bus_low
TimeSlot(low) == Sub32(Add32(SlotUs, SpacingUs), low)

Write_Call ==
    /\ pc = "idle"
    /\ op' = "write"
    /\ UNCHANGED mock_total
    /\ \E r \in RomIds : rom_id' = r
    /\ \E command \in Bytes : byte' = command
    /\ uc' = 0
    /\ time_drive_bus_low' = 0 /\ time_slot' = 0
    /\ buffer' = << >> /\ idx' = 0 /\ bit_position' = 0 /\ slave' = << >>
    /\ pc' = "w_loop"
    /\ Fresh
    /\ UNCHANGED << pinVars, borrows >>

\* mutant: the command is sent only to the device with ROM id 0
Write_LoopOnlyRomZero ==
    /\ pc = "w_loop"
    /\ pc' = IF uc < BitsPerByte /\ rom_id = 0 THEN "w_bit" ELSE "w_ret"
    /\ UNCHANGED << pinVars, borrows, callVars, writeVars, readVars,
                    bus_sensor_present, log, result, trace >>

\* for uc in 0..8
Write_Loop ==
    /\ pc = "w_loop"
    /\ pc' = IF uc < BitsPerByte THEN "w_bit" ELSE "w_ret"
    /\ UNCHANGED << pinVars, borrows, callVars, writeVars, readVars,
                    bus_sensor_present, log, result, trace >>

\* Overflow checks on (debug build): the subtraction panics when it wraps;
\* off (release build): it wraps.
Write_Bit ==
    /\ pc = "w_bit"
    /\ time_drive_bus_low' = TimeDriveBusLow(byte, uc)
    /\ IF Underflows32(Add32(SlotUs, SpacingUs), TimeDriveBusLow(byte, uc))
       THEN \/ time_slot' = time_slot /\ pc' = "panic"
            \/ time_slot' = TimeSlot(TimeDriveBusLow(byte, uc)) /\ pc' = "w_take"
       ELSE time_slot' = TimeSlot(TimeDriveBusLow(byte, uc)) /\ pc' = "w_take"
    /\ UNCHANGED << pinVars, borrows, callVars, byte, uc, readVars,
                    bus_sensor_present, log, result, trace >>

Write_Take ==
    /\ pc = "w_take"
    /\ TakeOutput("w_low")
    /\ UNCHANGED << latch, borrows, callVars, writeVars, readVars,
                    bus_sensor_present, log, result >>

\* mutant: write relies on the latch and does not assert low
Write_SetLowOmitted ==
    /\ pc = "w_low"
    /\ pc' = "w_borrow_low"
    /\ UNCHANGED << pinVars, borrows, callVars, writeVars, readVars,
                    bus_sensor_present, log, result, trace >>

Write_SetLow ==
    /\ pc = "w_low"
    /\ SetLow("w_borrow_low")
    /\ UNCHANGED << pin, ow_pin, borrows, callVars, writeVars, readVars,
                    bus_sensor_present, log, result >>

Write_BorrowLow ==
    /\ pc = "w_borrow_low"
    /\ BorrowMut("w_delay_low")
    /\ UNCHANGED << pinVars, callVars, writeVars, readVars,
                    bus_sensor_present, log, result, trace >>

Write_DelayLow ==
    /\ pc = "w_delay_low"
    /\ DelayUs(time_drive_bus_low, "w_input")
    /\ UNCHANGED << pinVars, callVars, writeVars, readVars,
                    bus_sensor_present, log, result >>

Write_Input ==
    /\ pc = "w_input"
    /\ IntoInput("w_borrow_slot")
    /\ UNCHANGED << pin, latch, borrows, callVars, writeVars, readVars,
                    bus_sensor_present, log, result >>

Write_BorrowSlot ==
    /\ pc = "w_borrow_slot"
    /\ BorrowMut("w_delay_slot")
    /\ UNCHANGED << pinVars, callVars, writeVars, readVars,
                    bus_sensor_present, log, result, trace >>

Write_DelaySlot ==
    /\ pc = "w_delay_slot"
    /\ DelayUs(time_slot, "w_input2")
    /\ UNCHANGED << pinVars, callVars, writeVars, readVars,
                    bus_sensor_present, log, result >>

\* the second into_floating_input, on the pin that already floats
Write_InputAgain ==
    /\ pc = "w_input2"
    /\ IntoInput("w_store")
    /\ UNCHANGED << pin, latch, borrows, callVars, writeVars, readVars,
                    bus_sensor_present, log, result >>

Write_Store ==
    /\ pc = "w_store"
    /\ StorePin("w_loop")
    /\ uc' = uc + 1
    /\ UNCHANGED << latch, borrows, callVars, byte, time_drive_bus_low, time_slot,
                    readVars, bus_sensor_present, log, result, trace >>

Write_Return ==
    /\ pc = "w_ret"
    /\ result' = "Ok(())"
    /\ pc' = "done"
    /\ UNCHANGED << pinVars, borrows, callVars, writeVars, readVars,
                    bus_sensor_present, log, trace >>

\* ------------------------------------------------------------------ read
\* What the slave transmits: a buffer of n bytes is answered with n bytes;
\* every byte value is tried on a one-byte read.
SlaveData(n) == [1..n -> IF n = 1 THEN Bytes ELSE SlaveBytes]

\* Level of the released line at the sample point of a read slot: the
\* slave holds it low for a 0 bit and lets the pull-up raise it for a 1.
LineLevel(s, k, j) == IF Bit(s[k + 1], j) = 1 THEN "High" ELSE "Low"

\* mutant: the received bits are stored most significant bit first
SampleIntoMsbFirst(b, l, j) == IF is_high(l) = TRUE THEN BitOr(b, Shl1(7 - j)) ELSE b

\* if ow_pin.is_high().unwrap() == true { *byte |= 1 << bit_position; }
SampleInto(b, l, j) == IF is_high(l) = TRUE THEN BitOr(b, Shl1(j)) ELSE b

\* mutant: the 2 us already spent driving low are not deducted
ReadRestUsNoInit == Sub32(Add32(SlotUs, SpacingUs), ReadSampleUs)

\* 60 + 1 - 9 - 2
ReadRestUs == Sub32(Sub32(Add32(SlotUs, SpacingUs), ReadSampleUs), ReadInitUs)

Read_Call ==
    /\ pc = "idle"
    /\ op' = "read"
    /\ UNCHANGED mock_total
    /\ \E r \in RomIds : rom_id' = r
    /\ \E n \in 0..MaxBufLen :
         /\ \E fill \in FillBytes : buffer' = [i \in 1..n |-> fill]
         /\ \E s \in SlaveData(n) : slave' = s
    /\ idx' = 0
    /\ bit_position' = 0
    /\ byte' = 0 /\ uc' = 0 /\ time_drive_bus_low' = 0 /\ time_slot' = 0
    /\ pc' = "rd_iter"
    /\ Fresh
    /\ UNCHANGED << pinVars, borrows >>

\* mutant: the first slot cycle is entered before the length is tested
Read_IterTestsAfterFirst ==
    /\ pc = "rd_iter"
    /\ pc' = IF idx = 0 \/ idx < Len(buffer) THEN "rd_clear" ELSE "rd_ret"
    /\ UNCHANGED << pinVars, borrows, callVars, writeVars, readVars,
                    bus_sensor_present, log, result, trace >>

\* buffer.iter_mut().for_each
Read_Iter ==
    /\ pc = "rd_iter"
    /\ pc' = IF idx < Len(buffer) THEN "rd_clear" ELSE "rd_ret"
    /\ UNCHANGED << pinVars, borrows, callVars, writeVars, readVars,
                    bus_sensor_present, log, result, trace >>

\* mutant: the byte is not cleared before it is filled
Read_ClearOmitted ==
    /\ pc = "rd_clear"
    /\ bit_position' = 0
    /\ pc' = "rd_bits"
    /\ UNCHANGED << pinVars, borrows, callVars, writeVars, buffer, idx, slave,
                    bus_sensor_present, log, result, trace >>

\* *byte = 0
Read_Clear ==
    /\ pc = "rd_clear"
    /\ buffer' = [buffer EXCEPT ![idx + 1] = 0]
    /\ bit_position' = 0
    /\ pc' = "rd_bits"
    /\ UNCHANGED << pinVars, borrows, callVars, writeVars, idx, slave,
                    bus_sensor_present, log, result, trace >>

\* (0..8).for_each
Read_Bits ==
    /\ pc = "rd_bits"
    /\ IF bit_position < BitsPerByte
       THEN pc' = "rd_take" /\ idx' = idx
       ELSE pc' = "rd_iter" /\ idx' = idx + 1
    /\ UNCHANGED << pinVars, borrows, callVars, writeVars, buffer, bit_position,
                    slave, bus_sensor_present, log, result, trace >>

Read_Take ==
    /\ pc = "rd_take"
    /\ TakeOutput("rd_low")
    /\ UNCHANGED << latch, borrows, callVars, writeVars, readVars,
                    bus_sensor_present, log, result >>

Read_SetLow ==
    /\ pc = "rd_low"
    /\ SetLow("rd_borrow2")
    /\ UNCHANGED << pin, ow_pin, borrows, callVars, writeVars, readVars,
                    bus_sensor_present, log, result >>

Read_Borrow2 ==
    /\ pc = "rd_borrow2"
    /\ BorrowMut("rd_delay2")
    /\ UNCHANGED << pinVars, callVars, writeVars, readVars,
                    bus_sensor_present, log, result, trace >>

Read_Delay2 ==
    /\ pc = "rd_delay2"
    /\ DelayUs(ReadInitUs, "rd_input")
    /\ UNCHANGED << pinVars, callVars, writeVars, readVars,
                    bus_sensor_present, log, result >>

\* mutant: the bus is not released before the sample
Read_InputOmitted ==
    /\ pc = "rd_input"
    /\ pc' = "rd_borrow9"
    /\ UNCHANGED << pinVars, borrows, callVars, writeVars, readVars,
                    bus_sensor_present, log, result, trace >>

Read_Input ==
    /\ pc = "rd_input"
    /\ IntoInput("rd_borrow9")
    /\ UNCHANGED << pin, latch, borrows, callVars, writeVars, readVars,
                    bus_sensor_present, log, result >>

Read_Borrow9 ==
    /\ pc = "rd_borrow9"
    /\ BorrowMut("rd_delay9")
    /\ UNCHANGED << pinVars, callVars, writeVars, readVars,
                    bus_sensor_present, log, result, trace >>

Read_Delay9 ==
    /\ pc = "rd_delay9"
    /\ DelayUs(ReadSampleUs, "rd_sample")
    /\ UNCHANGED << pinVars, callVars, writeVars, readVars,
                    bus_sensor_present, log, result >>

Read_Sample ==
    /\ pc = "rd_sample"
    /\ trace' = Append(trace, EvSample(LineLevel(slave, idx, bit_position)))
    /\ buffer' = [buffer EXCEPT ![idx + 1] =
                     SampleInto(@, LineLevel(slave, idx, bit_position), bit_position)]
    /\ pc' = "rd_borrow_rest"
    /\ UNCHANGED << pinVars, borrows, callVars, writeVars, idx, bit_position,
                    slave, bus_sensor_present, log, result >>

Read_BorrowRest ==
    /\ pc = "rd_borrow_rest"
    /\ BorrowMut("rd_delay_rest")
    /\ UNCHANGED << pinVars, callVars, writeVars, readVars,
                    bus_sensor_present, log, result, trace >>

Read_DelayRest ==
    /\ pc = "rd_delay_rest"
    /\ DelayUs(ReadRestUs, "rd_store")
    /\ UNCHANGED << pinVars, callVars, writeVars, readVars,
                    bus_sensor_present, log, result >>

\* mutant: the pin is put back only after the last bit of a byte
Read_StoreOncePerByte ==
    /\ pc = "rd_store"
    /\ IF bit_position = BitsPerByte - 1
       THEN StorePin("rd_bits")
       ELSE pin' = pin /\ ow_pin' = "none" /\ pc' = "rd_bits"
    /\ bit_position' = bit_position + 1
    /\ UNCHANGED << latch, borrows, callVars, writeVars, buffer, idx, slave,
                    bus_sensor_present, log, result, trace >>

Read_Store ==
    /\ pc = "rd_store"
    /\ StorePin("rd_bits")
    /\ bit_position' = bit_position + 1
    /\ UNCHANGED << latch, borrows, callVars, writeVars, buffer, idx, slave,
                    bus_sensor_present, log, result, trace >>

\* info!("{}", buffer); Ok(())
Read_Return ==
    /\ pc = "rd_ret"
    /\ log' = [tag |-> "buffer", present |-> FALSE, bytes |-> buffer]
    /\ result' = "Ok(())"
    /\ pc' = "done"
    /\ UNCHANGED << pinVars, borrows, callVars, writeVars, readVars,
                    bus_sensor_present, trace >>

\* The caller regains control and drops what the call returned; the locals
\* of the call are gone.  Only the pin, its latch and the RefCell live on.
Resume ==
    /\ pc = "done"
    /\ pc' = "idle"
    /\ op' = "none"
    /\ rom_id' = 0
    /\ mock_total' = IF op = "write" /\ byte \in {0, 255}
                     THEN [cmd |-> byte, us |-> TotalUs(trace),
                           low |-> Sum(DrivenDelays(trace))]
                     ELSE mock_total
    /\ byte' = 0 /\ uc' = 0 /\ time_drive_bus_low' = 0 /\ time_slot' = 0
    /\ buffer' = << >> /\ idx' = 0 /\ bit_position' = 0 /\ slave' = << >>
    /\ Fresh
    /\ UNCHANGED << pinVars, borrows >>

Next ==
    \/ BusReset_Call \/ BusReset_Take \/ BusReset_SetLow \/ BusReset_Borrow480
    \/ BusReset_Delay480 \/ BusReset_SetHigh \/ BusReset_Input
    \/ BusReset_Borrow90 \/ BusReset_Delay90 \/ BusReset_Sample
    \/ BusReset_Borrow390 \/ BusReset_Delay390 \/ BusReset_Store
    \/ BusReset_Return
    \/ Write_Call \/ Write_Loop \/ Write_Bit \/ Write_Take \/ Write_SetLow
    \/ Write_BorrowLow \/ Write_DelayLow \/ Write_Input \/ Write_BorrowSlot
    \/ Write_DelaySlot \/ Write_InputAgain \/ Write_Store \/ Write_Return
    \/ Read_Call \/ Read_Iter \/ Read_Clear \/ Read_Bits \/ Read_Take
    \/ Read_SetLow \/ Read_Borrow2 \/ Read_Delay2 \/ Read_Input
    \/ Read_Borrow9 \/ Read_Delay9 \/ Read_Sample \/ Read_BorrowRest
    \/ Read_DelayRest \/ Read_Store \/ Read_Return
    \/ Resume

Spec == Init /\ [][Next]_vars

\* ================================================================ claims
Returned(o) == pc = "done" /\ op = o

\* C1: whenever no call is running - before a call starts and when a call
\* has returned - the pin is stored in the driver in floating-input mode;
\* every call finds it there (its first pin event converts a floating
\* input) and no call returns with the pin in output mode.
C1_PinIdleAtCallBoundaries ==
    /\ pc \in {"idle", "done"} => pin = "Input" /\ ow_pin = "none"
    /\ Len(trace) > 0 => trace[1] = EvMode("Input", "Output")
C1_Witness ==
    /\ Returned("read") /\ Len(buffer) = 2 /\ latch = "Low"
    /\ pin = "Input" /\ Slots(trace) = 16

\* C2 (as stated): the value bus_reset returns is the sampled presence
\* boolean - true for a low sample, false for a high one.
C2_ReturnsPresence ==
    Returned("bus_reset") =>
        result = (IF trace[7].lvl = "Low" THEN "Ok(true)" ELSE "Ok(false)")
\* C2 (amended): bus_reset returns the unit success value whatever level is
\* sampled; the presence boolean (true exactly for a low sample) is kept in
\* a local and written to the log.
C2_PresenceLoggedNotReturned ==
    Returned("bus_reset") =>
        /\ result = "Ok(())"
        /\ trace[7].kind = "sample"
        /\ bus_sensor_present = (trace[7].lvl = "Low")
        /\ log = [tag |-> "present", present |-> (trace[7].lvl = "Low"), bytes |-> << >>]
C2_Witness ==
    Returned("bus_reset") /\ trace[7].lvl = "Low" /\ log.present = TRUE

\* C3: every bus_reset produces one fixed event sequence whatever level is
\* sampled: to output, assert low, 480 us, release (assert high, then to
\* floating input), 90 us, one sample, 390 us; one low pulse, one sample,
\* three delays, no retry.
ResetSequence(l) ==
    << EvMode("Input", "Output"), EvSet("Low"), EvDelay(480),
       EvSet("High"), EvMode("Output", "Input"),
       EvDelay(90), EvSample(l), EvDelay(390) >>
C4_LowTimeSixOrSixty ==
    Returned("write") =>
        /\ Slots(trace) = 8
        /\ DrivenDelays(trace) = [i \in 1..8 |-> IF Bit(byte, i - 1) = 1 THEN 6 ELSE 60]
\* C4 (amended): as stated, with 7 us for a 1 bit.
C4_LowTimeSevenOrSixty ==
    Returned("write") =>
        /\ Slots(trace) = 8
        /\ DrivenDelays(trace) = [i \in 1..8 |-> IF Bit(byte, i - 1) = 1 THEN 7 ELSE 60]
C4_Witness ==
    /\ Returned("write") /\ byte = 176
    /\ DrivenDelays(trace) = << 60, 60, 60, 60, 7, 7, 60, 7 >>

ReadSlot(l) ==
    << EvMode("Input", "Output"), EvSet("Low"), EvDelay(2),
       EvMode("Output", "Input"), EvDelay(9), EvSample(l), EvDelay(50) >>
C6_ReadSlots ==
    Returned("read") =>
        /\ Slots(trace) = 8 * Len(buffer)
        /\ Len(trace) = 7 * 8 * Len(buffer)
        /\ Count(trace, IsSample) = 8 * Len(buffer)
        /\ \A s \in 0..(8 * Len(buffer) - 1) :
             LET slot == SubSeq(trace, 7 * s + 1, 7 * s + 7)
             IN  /\ \E l \in Levels : slot = ReadSlot(l)
                 /\ TotalUs(slot) = 61
                 /\ TotalUs(SubSeq(slot, 1, 5)) = 11
C6_Witness ==
    Returned("read") /\ Len(buffer) = 2 /\ Slots(trace) = 16 /\ TotalUs(trace) = 976

\* C7: after read, bit j of buffer[k] is 1 exactly when the sample of slot
\* 8*k+j was high (bytes in index order, bits LSB first), so the buffer
\* holds exactly the bytes the slave transmitted.
SampleOfSlot(t, s) == t[7 * s + 6]
C7_BufferIsSamples ==
    Returned("read") =>
        /\ \A k \in 0..(Len(buffer) - 1) : \A j \in 0..7 :
             /\ SampleOfSlot(trace, 8 * k + j).kind = "sample"
             /\ (Bit(buffer[k + 1], j) = 1) <=> (SampleOfSlot(trace, 8 * k + j).lvl = "High")
        /\ \A k \in 1..Len(buffer) : buffer[k] \in Bytes
        /\ buffer = slave
C7_Witness ==
    Returned("read") /\ slave = << 176, 1 >> /\ buffer = << 176, 1 >>

\* C8 (as stated): the summed delays of write for the all-zero command
\* differ from those of write for the all-ones command.
C8_ExtremeTotalsDiffer ==
    (Returned("write") /\ byte \in {0, 255} /\ mock_total.cmd = 255 - byte) =>
        TotalUs(trace) # mock_total.us
\* C8 (amended): the summed delays of write are the same 488 us (8 slots of
\* 61 us) for the all-zero and the all-ones command; what differs is the
\* part of it spent driving the bus low, 480 us against 56 us.
C8_ExtremeTotalsEqual ==
    /\ Returned("write") => TotalUs(trace) = 488
    /\ (Returned("write") /\ byte = 0) => Sum(DrivenDelays(trace)) = 480
    /\ (Returned("write") /\ byte = 255) => Sum(DrivenDelays(trace)) = 56
    /\ (Returned("write") /\ byte \in {0, 255} /\ mock_total.cmd = 255 - byte) =>
            /\ TotalUs(trace) = mock_total.us
            /\ Sum(DrivenDelays(trace)) # mock_total.low
C8_Witness ==
    /\ Returned("write") /\ byte = 255 /\ mock_total.cmd = 0
    /\ mock_total.us = 488 /\ mock_total.low = 480 /\ TotalUs(trace) = 488

\* C9: no call yields an error or panics: every call that returns returns
\* Ok(()), also a reset that samples no presence and a read of an all-high
\* line, which therefore look like any other successful call.
C9_AlwaysOk ==
    /\ pc # "panic"
    /\ result \in {"none", "Ok(())"}
    /\ pc = "done" => result = "Ok(())"
    /\ pc # "done" => result = "none"
C9_Witness ==
    /\ Returned("read") /\ buffer = << 255, 255 >> /\ result = "Ok(())"
    /\ latch = "Low"

\* C10: the driver holds a borrow of the delay provider only between the
\* borrow_mut() and the end of one delay statement: never two at once,
\* none at a pin-mode conversion, a level assertion, a sample, a take or a
\* store of the pin, nor when a call starts or returns; borrow_mut never
\* fails.
DelayPcs ==
    {"r_delay480", "r_delay90", "r_delay390", "w_delay_low", "w_delay_slot",
     "rd_delay2", "rd_delay9", "rd_delay_rest"}
C10_BorrowPerDelay ==
    /\ borrows \in {0, 1}
    /\ borrows = 1 <=> pc \in DelayPcs
    /\ pc # "panic"
C10_Witness ==
    /\ pc = "rd_delay_rest" /\ borrows = 1
    /\ idx = 1 /\ bit_position = 7

\* C11 (as stated): each of the 8 bit transmissions of write performs
\* exactly five steps - to output, assert low, the low-time delay, to
\* floating input, the rest-of-slot delay - and nothing else.
WriteSlotAsStated(low) ==
    << EvMode("Input", "Output"), EvSet("Low"), EvDelay(low),
       EvMode("Output", "Input"), EvDelay(61 - low) >>
C11_WriteSlotFiveSteps ==
    Returned("write") =>
        /\ Len(trace) = 8 * 5
        /\ \A i \in 0..7 :
             SubSeq(trace, 5 * i + 1, 5 * i + 5)
                 = WriteSlotAsStated(IF Bit(byte, i) = 1 THEN 7 ELSE 60)
\* C11 (amended): each bit transmission performs those five steps in that
\* order and then a sixth, a second conversion to floating input of the pin
\* that already floats, which changes no mode; a slot records exactly one
\* transition to output mode and exactly one transition from output to
\* floating-input mode.
IsToInput(e) == e.kind = "mode" /\ e.from = "Output" /\ e.to = "Input"
IsInputAgain(e) == e.kind = "mode" /\ e.from = "Input" /\ e.to = "Input"
WriteSlotAsCoded(low) == WriteSlotAsStated(low) \o << EvMode("Input", "Input") >>
C11_WriteSlotSixSteps ==
    Returned("write") =>
        /\ Len(trace) = 8 * 6
        /\ \A i \in 0..7 :
             LET slot == SubSeq(trace, 6 * i + 1, 6 * i + 6)
             IN  /\ slot = WriteSlotAsCoded(IF Bit(byte, i) = 1 THEN 7 ELSE 60)
                 /\ Count(slot, IsToOutput) = 1
                 /\ Count(slot, IsToInput) = 1
                 /\ Count(slot, IsInputAgain) = 1
                 /\ Count(slot, IsSetLow) = 1
                 /\ Count(slot, IsDelay) = 2
C11_Witness ==
    /\ Returned("write") /\ byte = 1
    /\ SubSeq(trace, 1, 6) = WriteSlotAsCoded(7)
    /\ SubSeq(trace, 7, 12) = WriteSlotAsCoded(60)

\* C12 (as stated): whenever the pin is in output mode it asserts logic
\* low and never high.  Stated here in the claim's favour: the step between
\* a switch to output and the set_low that follows it is not counted.
JustSwitchedPcs == {"r_low", "w_low", "rd_low"}
C12_OutputOnlyLow ==
    /\ (ow_pin = "Output" /\ pc \notin JustSwitchedPcs) => latch = "Low"
    /\ \A i \in 1..Len(trace) : trace[i].kind = "set" => trace[i].lvl = "Low"
\* C12 (amended): in every timed sub-slot the pin passes only through
\* Idle(Input) -> Driving(Output) -> Idle(Input), and every delay made in
\* output mode is made with logic low asserted; but bus_reset asserts high
\* in output mode after its 480 us low pulse, right before it converts the
\* pin to floating input, and a latch left high (as bus_reset leaves it) is
\* driven for the step between a switch to output and its set_low.  These
\* are the only states in which the pin is in output mode asserting high.
IsMode(e) == e.kind = "mode"
RECURSIVE ModesChainFrom(_, _, _)
ModesChainFrom(t, i, m) ==
    IF i > Len(t) THEN TRUE
    ELSE IF t[i].kind = "mode"
         THEN /\ t[i].from = m
              /\ << t[i].from, t[i].to >> \in
                    {<< "Input", "Output" >>, << "Output", "Input" >>, << "Input", "Input" >>}
              /\ ModesChainFrom(t, i + 1, t[i].to)
         ELSE ModesChainFrom(t, i + 1, m)
C12_HighOnlyAtResetRelease ==
    /\ pc = "done" => ModesChainFrom(trace, 1, "Input")
    /\ (ow_pin = "Output" /\ latch = "High") => pc \in JustSwitchedPcs \cup {"r_input"}
    /\ (ow_pin = "Output" /\ borrows = 1) => latch = "Low"
    /\ pc = "r_input" => ow_pin = "Output" /\ latch = "High"
    \* every event is the last one of the trace in some state, and the
    \* last but one in the next
    /\ (Len(trace) > 0 /\ trace[Len(trace)] = EvSet("High")) =>
           /\ op = "bus_reset" /\ pc = "r_input" /\ Len(trace) = 4
           /\ trace[3] = EvDelay(480)
    /\ (Len(trace) > 1 /\ trace[Len(trace) - 1] = EvSet("High")) =>
           trace[Len(trace)] = EvMode("Output", "Input")
C12_Witness ==
    /\ op = "bus_reset" /\ pc = "r_input"
    /\ ow_pin = "Output" /\ latch = "High"
    /\ trace[Len(trace)] = EvSet("High")

\* C13: the buffer after read depends only on the levels sampled during
\* that read, not on what the caller's buffer held before: every byte
\* already visited is the value of its own 8 samples, the byte being filled
\* is the value of the samples taken for it so far (0 before the first),
\* and the returned buffer is the value of the samples alone.
RECURSIVE ValueOfLevels(_, _)
ValueOfLevels(q, j) ==
    IF j > Len(q) THEN 0
    ELSE (IF q[j].lvl = "High" THEN 2 ^ (j - 1) ELSE 0) + ValueOfLevels(q, j + 1)
SamplesOf(t) == SelectSeq(t, IsSample)
FillingPcs ==
    {"rd_bits", "rd_take", "rd_low", "rd_borrow2", "rd_delay2", "rd_input",
     "rd_borrow9", "rd_delay9", "rd_sample", "rd_borrow_rest", "rd_delay_rest",
     "rd_store"}
C13_BufferOnlySamples ==
    op = "read" =>
        LET S == SamplesOf(trace)
        IN  /\ \A k \in 0..(idx - 1) :
                 buffer[k + 1] = ValueOfLevels(SubSeq(S, 8 * k + 1, 8 * k + 8), 1)
            /\ pc \in FillingPcs =>
                 buffer[idx + 1] = ValueOfLevels(SubSeq(S, 8 * idx + 1, Len(S)), 1)
            /\ pc = "done" =>
                 /\ idx = Len(buffer)
                 /\ Len(S) = 8 * Len(buffer)
\* The first byte, 0xFF like the second when read was called, holds the
\* value 0 of its eight low samples.
C13_Witness ==
    /\ op = "read" /\ pc = "rd_iter" /\ idx = 1
    /\ buffer = << 0, 255 >>
    /\ Len(SamplesOf(trace)) = 8

\* C14: in bus_reset the delays made between the release of the bus and
\* the return (90 us before the sample, 390 us after it) total at least
\* 480 us, for either sampled level, and the driver does not touch the pin
\* mode or level in between: whatever call follows starts its bus activity
\* no sooner than 480 us after the release.
C14_ResetRecoveryTime ==
    Returned("bus_reset") =>
        \E r \in 1..Len(trace) :
            LET after == SubSeq(trace, r + 1, Len(trace))
            IN  /\ IsToInput(trace[r])
                /\ TotalUs(after) >= 480
                /\ TotalUs(after) = 90 + 390
                /\ Count(after, IsMode) = 0
                /\ \A i \in 1..Len(after) : after[i].kind # "set"
                /\ Count(after, IsSample) = 1
C14_Witness ==
    /\ Returned("bus_reset") /\ bus_sensor_present = TRUE
    /\ IsToInput(trace[5]) /\ TotalUs(SubSeq(trace, 6, Len(trace))) = 480

\* C15: the driver carries nothing from one call to the next but the idle
\* pin: between calls the pin is stored as a floating input and no borrow
\* is live, and the events of a call are fixed by that call alone - by the
\* command for write, by the buffer length and the line levels for read,
\* by the sampled level for bus_reset - whatever calls came before (none,
\* a reset with or without presence, writes of other commands, reads) and
\* whatever level the earlier calls left in the output latch.
RECURSIVE WriteTraceFrom(_, _)
WriteTraceFrom(c, i) ==
    IF i = 8 THEN << >>
    ELSE WriteSlotAsCoded(IF Bit(c, i) = 1 THEN 7 ELSE 60) \o WriteTraceFrom(c, i + 1)
RECURSIVE ReadTraceFrom(_, _)
ReadTraceFrom(s, n) ==
    IF n = 8 * Len(s) THEN << >>
    ELSE ReadSlot(IF Bit(s[(n \div 8) + 1], n % 8) = 1 THEN "High" ELSE "Low")
             \o ReadTraceFrom(s, n + 1)
C15_EventsFixedByTheCall ==
    /\ pc = "idle" => pin = "Input" /\ ow_pin = "none" /\ borrows = 0 /\ trace = << >>
    /\ Returned("write") => trace = WriteTraceFrom(byte, 0)
    /\ Returned("read") => Len(slave) = Len(buffer) /\ trace = ReadTraceFrom(slave, 0)
    /\ Returned("bus_reset") =>
           trace = ResetSequence(IF bus_sensor_present = TRUE THEN "Low" ELSE "High")
\* write(0xFF), made after an earlier write(0x00), produces the events of
\* write(0xFF).
C15_Witness ==
    /\ Returned("write") /\ byte = 255 /\ mock_total.cmd = 0
    /\ trace[1] = EvMode("Input", "Output") /\ trace[3] = EvDelay(7)
    /\ Len(trace) = 48

\* C16: every take of the pin slot finds the pin in it (the unwrap never
\* fails); the slot is empty exactly from a take to the store that follows
\* it inside the same call, while the local ow_pin holds the pin, so takes
\* and stores alternate.
TakePcs == {"r_take", "w_take", "rd_take"}
HoldingPcs ==
    {"r_low", "r_borrow480", "r_delay480", "r_high", "r_input", "r_borrow90",
     "r_delay90", "r_sample", "r_borrow390", "r_delay390", "r_store",
     "w_low", "w_borrow_low", "w_delay_low", "w_input", "w_borrow_slot",
     "w_delay_slot", "w_input2", "w_store",
     "rd_low", "rd_borrow2", "rd_delay2", "rd_input", "rd_borrow9", "rd_delay9",
     "rd_sample", "rd_borrow_rest", "rd_delay_rest", "rd_store"}
C16_SlotOccupiedWhenTaken ==
    /\ pc # "panic"
    /\ pc \in TakePcs => pin = "Input"
    /\ pin = "None" <=> pc \in HoldingPcs
    /\ pin = "None" <=> ow_pin # "none"
    /\ pin \in {"None", "Input"}
C16_Witness ==
    /\ op = "read" /\ pc = "rd_low" /\ idx = 1 /\ bit_position = 7
    /\ pin = "None" /\ ow_pin = "Output"

\* C17: every sample - the presence sample of bus_reset and each bit
\* sample of read - is taken with the pin in floating-input mode, after
\* the conversion from output mode that released the bus and with only a
\* delay in between, never in output mode; write takes no sample.
C17_SampleWhileReleased ==
    /\ pc \in {"r_sample", "rd_sample"} => ow_pin = "Input" /\ pin = "None"
    /\ pc \in {"done", "r_borrow390", "rd_borrow_rest"} =>
         \A i \in 1..Len(trace) :
             trace[i].kind = "sample" =>
                 /\ i >= 3
                 /\ IsToInput(trace[i - 2])
                 /\ trace[i - 1].kind = "delay"
    /\ op = "write" => Count(trace, IsSample) = 0
    /\ Returned("bus_reset") => Count(trace, IsSample) = 1
C17_Witness ==
    /\ op = "read" /\ pc = "rd_borrow_rest" /\ idx = 1 /\ bit_position = 7
    /\ ow_pin = "Input"
    /\ trace[Len(trace)].kind = "sample"
    /\ IsToInput(trace[Len(trace) - 2])

\* C18: read of an empty buffer issues no time slot: from call to return
\* it makes no pin-mode conversion, no level assertion, no sample and no
\* delay, takes neither the pin nor a borrow, and returns Ok(()) with the
\* pin stored as a floating input.
C18_EmptyReadDoesNothing ==
    (op = "read" /\ Len(buffer) = 0) =>
        /\ pc \in {"rd_iter", "rd_ret", "done"}
        /\ trace = << >>
        /\ pin = "Input" /\ ow_pin = "none"
        /\ borrows = 0
        /\ pc = "done" => result = "Ok(())" /\ log.bytes = << >>
\* An empty read after a bus_reset: the latch is still as the reset left it.
C18_Witness ==
    /\ Returned("read") /\ Len(buffer) = 0 /\ trace = << >>
    /\ result = "Ok(())" /\ pin = "Input" /\ latch = "High"
    /\ mock_total.cmd = 255

\* C19: the ROM id passed to write and read has no effect: for each ROM id
\* the events of write are those fixed by the command, and the events of
\* read and the buffer it returns are those fixed by the line levels, so
\* two calls that differ only in the ROM id produce the same events and
\* the same buffer.
C19_RomIdIgnored ==
    \A r \in RomIds :
        rom_id = r =>
            /\ Returned("write") =>
                 /\ trace = WriteTraceFrom(byte, 0)
                 /\ result = "Ok(())"
            /\ Returned("read") =>
                 /\ trace = ReadTraceFrom(slave, 0)
                 /\ buffer = [k \in 1..Len(slave) |->
                                 ValueOfLevels(SubSeq(SamplesOf(trace), 8 * k - 7, 8 * k), 1)]
                 /\ log.bytes = buffer
                 /\ result = "Ok(())"
C19_Witness ==
    /\ Returned("read") /\ rom_id = 1
    /\ slave = << 165 >> /\ buffer = << 165 >>
    /\ trace = ReadTraceFrom(<< 165 >>, 0)

====
